---- MODULE Spec2Model ----
(***************************************************************************)
(* The DIIS-accelerated restricted Hartree-Fock notebook                   *)
(* (src/unnamed/part_000) as a state machine.                              *)
(*                                                                         *)
(* One action per statement group of the "SCF Iterations w/ DIIS" cell;    *)
(* pc is the position of the interpreter inside that cell.  Everything the *)
(* notebook computes itself (Fock build, residual, energy, B matrix, right *)
(* hand side, linear combination) is computed here with the same formulas. *)
(* The integrals handed over by psi4 (S, A, H, I, E_nuc) are small integer *)
(* tables, one set per molecule.  Arithmetic is exact (rationals as        *)
(* numerator/denominator).  np.linalg.eigh is computed: the molecules are  *)
(* such that the lowest eigenvector of every matrix the notebook           *)
(* diagonalises is a unit vector, which eigh returns exactly.              *)
(* np.linalg.solve returns the exact solution of a nonsingular system; for *)
(* a singular one it raises LinAlgError when the LU factorisation is exact *)
(* in binary floating point; otherwise rounding decides between the        *)
(* exception and an array of numbers that exact arithmetic does not        *)
(* determine, which is held as an array with denominator 0.                *)
(*                                                                         *)
(* Python lists and numpy axes are 0-based here as in the source: a list   *)
(* is a function on 0..len-1.  Arrays that the code may update in place    *)
(* (the Fock matrices) live in `heap` and are named by reference.          *)
(***************************************************************************)
EXTENDS Integers, Sequences, FiniteSets, TLC

\* ------------------------------------------------------------------ bounds
\* MAXITER = 40 in the notebook; the model runs the same loop with a smaller cap.
MAXITER == 4

\* ------------------------------------------------- data provided by psi4
nbf == 4
ndocc == 1
E_nuc == 9

\* E_conv = 1.0e-6 and D_conv = 1.0e-3 as exact fractions.
E_conv_num == 1
E_conv_den == 1000000
D_conv_num == 1
D_conv_den == 1000

Idx == 0 .. (nbf - 1)
Idx2 == Idx \X Idx

\* ---------------------------------------------------------------- helpers
RECURSIVE SumOver(_, _)
SumOver(f, dom) ==
    IF dom = {} THEN 0
    ELSE LET x == CHOOSE y \in dom : TRUE
         IN  f[x] + SumOver(f, dom \ {x})

Abs(x) == IF x < 0 THEN -x ELSE x

RECURSIVE Gcd(_, _)
Gcd(a, b) == IF b = 0 THEN Abs(a) ELSE Gcd(b, a % Abs(b))

RECURSIVE GcdOver(_, _, _)
GcdOver(f, dom, g) ==
    IF dom = {} THEN g
    ELSE LET x == CHOOSE y \in dom : TRUE
         IN  GcdOver(f, dom \ {x}, Gcd(g, f[x]))

\* Python list operations: len(l), [], l.append(x).
PyLen(l) == Cardinality(DOMAIN l)
PyEmpty == << >>
PyAppend(l, x) == [i \in 0 .. PyLen(l) |-> IF i < PyLen(l) THEN l[i] ELSE x]
PyLast(l) == l[PyLen(l) - 1]

\* Overlap matrix and AO orthogonalization matrix S^(-1/2): the basis is
\* orthonormal.
S == [p \in Idx, q \in Idx |-> IF p = q THEN 1 ELSE 0]
A == [p \in Idx, q \in Idx |-> IF p = q THEN 1 ELSE 0]

\* The integrals of each molecule, as tables (tuples are 1-based: entry
\* p + 1 belongs to basis function p).
\*   MolHd[m][p + 1]         H[p, p]; H is diagonal
\*   MolW[m][a + 1][p + 1]   (aa|aa) for p = a and -(pa|pa) for p # a
\*   MolOff[m][a + 1][b]     for the b-th pair {b - 1, b} of neighbours: the
\*                           integral (qa|aa) when the pair is {q, a}, and
\*                           -(pa|qa) when the pair is {p, q} without a
\* Every other integral is 0.  With the density on basis function a the Fock
\* matrix H + 2J - K then has the diagonal MolHd + MolW[a] and, between
\* neighbours, the entries MolOff[a].
MolHd ==
    << <<-10, -3, 0, 0>>,
       <<-2, 2, 0, 0>>,
       <<0, -2, 2, 0>>,
       <<3, -2, 0, -1>>,
       <<1, -1, 0, 0>> >>
MolW ==
    << << <<1, 4, 1, 7>>, <<4, 12, 7, 7>>, <<1, 7, 10, 6>>, <<7, 7, 6, 12>> >>,
       << <<2, 2, 0, -4>>, <<2, 0, 0, 0>>, <<0, 0, 0, 0>>, <<-4, 0, 0, 0>> >>,
       << <<2, -1, 0, -5>>, <<-1, 7, 4, 3>>, <<0, 4, 0, -2>>, <<-5, 3, -2, -8>> >>,
       << <<5, 0, -3, -5>>, <<0, 10, 5, 13>>, <<-3, 5, 3, -12>>, <<-5, 13, -12, -16>> >>,
       << <<6, -5, -9, -4>>, <<-5, 9, 9, 0>>, <<-9, 9, 0, -6>>, <<-4, 0, -6, 0>> >> >>
MolOff ==
    << << <<0, 0, 0>>, <<1, 0, 0>>, <<0, 1, 0>>, <<0, 0, 1>> >>,
       << <<0, 2, 0>>, <<0, 0, 0>>, <<0, 0, 0>>, <<0, 2, 1>> >>,
       << <<1, 0, 0>>, <<0, 1, 0>>, <<0, 1, 0>>, <<0, 0, 0>> >>,
       << <<1, -1, 0>>, <<0, 1, 0>>, <<0, 1, 0>>, <<0, 0, 0>> >>,
       << <<-1, 0, 1>>, <<0, -1, -1>>, <<0, 0, -1>>, <<2, 0, 0>> >> >>
Molecules == DOMAIN MolHd

\* The molecule psi4 was given: an index into the tables (0: none).
VARIABLE mol

OffOf(m, a, p, q) ==
    IF Abs(p - q) = 1 THEN MolOff[m][a + 1][(IF p < q THEN p ELSE q) + 1] ELSE 0
\* (pq|rs) in chemists' notation, with its 8-fold permutational symmetry.
ERIOf(m, p, q, r, s) ==
    CASE p = q /\ q = r /\ r = s -> MolW[m][p + 1][p + 1]
      [] p = q /\ q = r /\ r # s -> OffOf(m, p, s, p)
      [] p = q /\ q = s /\ r # s -> OffOf(m, p, r, p)
      [] p = r /\ r = s /\ q # p -> OffOf(m, p, q, p)
      [] q = r /\ r = s /\ p # q -> OffOf(m, q, p, q)
      [] p # q /\ {p, q} = {r, s} -> -MolW[m][p + 1][q + 1]
      [] p # q /\ r # s /\ Cardinality({p, q} \cap {r, s}) = 1 ->
            LET a == CHOOSE x \in {p, q} \cap {r, s} : TRUE
                x == CHOOSE y \in {p, q} \ {a} : TRUE
                z == CHOOSE y \in {r, s} \ {a} : TRUE
            IN  -OffOf(m, a, x, z)
      [] OTHER -> 0

\* H = T + V and I = mints.ao_eri() of the molecule.
H == [p \in Idx, q \in Idx |-> IF p = q THEN MolHd[mol][p + 1] ELSE 0]
I == [p \in Idx, q \in Idx, r \in Idx, s \in Idx |-> ERIOf(mol, p, q, r, s)]

\* ------------------------------------------------------- dense array algebra
MatMul(x, y) ==
    [p \in Idx, q \in Idx |-> SumOver([k \in Idx |-> x[p, k] * y[k, q]], Idx)]
MatSub(x, y) == [p \in Idx, q \in Idx |-> x[p, q] - y[p, q]]

FrobeniusSelf(x, y) == SumOver([ij \in DOMAIN x |-> x[ij] * x[ij]], DOMAIN x)
\* np.einsum('ij,ij->', x, y)
Frobenius(x, y) == SumOver([ij \in DOMAIN x |-> x[ij] * y[ij]], DOMAIN x)

\* A rational array: integer numerators over one positive denominator, in
\* lowest terms, so that equal arrays are equal values.
RatNorm(num, den) ==
    LET g == GcdOver(num, DOMAIN num, den)
    IN  [num |-> [ij \in DOMAIN num |-> num[ij] \div g], den |-> den \div g]
RatOfInt(m) == [num |-> m, den |-> 1]
RatZerosLike(x) == [num |-> [ij \in DOMAIN x.num |-> 0], den |-> 1]
RatAddUnscaled(x, cnum, cden, y) ==
    RatNorm([ij \in DOMAIN x.num |-> x.num[ij] * y.den + y.num[ij] * x.den], x.den * y.den)

\* x + (cnum/cden) * y.  A denominator 0 marks numbers that exact arithmetic
\* does not determine (see LinalgSolve); a sum with such a term is not
\* determined either.
RatAddScaled(x, cnum, cden, y) ==
    IF x.den = 0 \/ cden = 0 \/ y.den = 0
    THEN [num |-> [ij \in DOMAIN x.num |-> 0], den |-> 0]
    ELSE RatNorm([ij \in DOMAIN x.num |->
                    x.num[ij] * (cden * y.den) + cnum * y.num[ij] * x.den],
                 x.den * cden * y.den)

\* ------------------------------------------------------ the notebook's physics
\* J = np.einsum('pqrs,rs->pq', I, D); K = np.einsum('prqs,rs->pq', I, D)
Coulomb(d) ==
    [p \in Idx, q \in Idx |-> SumOver([rs \in Idx2 |-> I[p, q, rs[1], rs[2]] * d[rs]], Idx2)]
Exchange(d) ==
    [p \in Idx, q \in Idx |-> SumOver([rs \in Idx2 |-> I[p, rs[1], q, rs[2]] * d[rs]], Idx2)]
\* F = H + 2*J - K
FockBuild(d) ==
    LET Jm == Coulomb(d)
        Km == Exchange(d)
    IN  [p \in Idx, q \in Idx |-> H[p, q] + 2 * Jm[p, q] - Km[p, q]]

\* diis_r = A.dot(F.dot(D).dot(S) - S.dot(D).dot(F)).dot(A)
Residual(f, d) ==
    MatMul(MatMul(A, MatSub(MatMul(MatMul(f, d), S), MatMul(MatMul(S, d), f))), A)

\* SCF_E = np.einsum('pq,pq->', (H + F), D) + E_nuc
Energy(f, d) == SumOver([pq \in Idx2 |-> (H[pq] + f[pq]) * d[pq]], Idx2) + E_nuc

\* dRMS = np.mean(diis_r**2)**0.5, kept as its square sq_num / sq_den.
RootMeanSquare(r) ==
    [sq_num |-> SumOver([ij \in DOMAIN r |-> r[ij] * r[ij]], DOMAIN r),
     sq_den |-> Cardinality(DOMAIN r)]

\* (abs(dE) < E_conv) and (dRMS < D_conv); the second compared on squares,
\* both sides being non-negative.
EnergyConverged(de) == Abs(de) * E_conv_den < E_conv_num
DensityConverged(rms) ==
    rms.sq_num * (D_conv_den * D_conv_den) < (D_conv_num * D_conv_num) * rms.sq_den
ConvergedEither(de, rms) == EnergyConverged(de) \/ DensityConverged(rms)
Converged(de, rms) == EnergyConverged(de) /\ DensityConverged(rms)

\* ------------------------------------------------------------ the DIIS core
\* An array together with the set of entries assigned since its allocation.
\* np.empty leaves whatever the allocator returns: g stands for that content.
Garbage == {-1, 0, 7}
NpEmpty(dim, g) ==
    [val |-> [i \in 0 .. (dim - 1), j \in 0 .. (dim - 1) |-> g], assigned |-> {}]
SetRow(b, row, v) ==
    LET hit == {ij \in DOMAIN b.val : ij[1] = row}
    IN  [val |-> [ij \in DOMAIN b.val |-> IF ij \in hit THEN v ELSE b.val[ij]],
         assigned |-> b.assigned \cup hit]
SetColAsRow(b, col, v) == SetRow(b, col, v)
SetCol(b, col, v) ==
    LET hit == {ij \in DOMAIN b.val : ij[2] = col}
    IN  [val |-> [ij \in DOMAIN b.val |-> IF ij \in hit THEN v ELSE b.val[ij]],
         assigned |-> b.assigned \cup hit]
SetEntry(b, row, col, v) ==
    [val |-> [b.val EXCEPT ![row, col] = v], assigned |-> b.assigned \cup {<<row, col>>}]
FillOverlapsUpper(b, resids, n) ==
    LET hit == {ij \in (0 .. (n - 1)) \X (0 .. (n - 1)) : ij[1] <= ij[2]}
    IN  [val |-> [ij \in DOMAIN b.val |->
                    IF ij \in hit THEN Frobenius(resids[ij[1]], resids[ij[2]])
                    ELSE b.val[ij]],
         assigned |-> b.assigned \cup hit]
\* for i in xrange(n): for j in xrange(n): B[i, j] = einsum('ij,ij->', r[i], r[j])
FillOverlaps(b, resids, n) ==
    LET hit == (0 .. (n - 1)) \X (0 .. (n - 1))
    IN  [val |-> [ij \in DOMAIN b.val |->
                    IF ij \in hit THEN Frobenius(resids[ij[1]], resids[ij[2]])
                    ELSE b.val[ij]],
         assigned |-> b.assigned \cup hit]

\* if scf_iter >= 2
DIISActiveFromFirst(iter) == iter >= 1
DIISActive(iter) == iter >= 2

BuildBPlusBorder(resids, n, g) ==
    LET B_dim == n + 1
        b0 == NpEmpty(B_dim, g)
        b1 == SetRow(b0, B_dim - 1, 1)
        b2 == SetCol(b1, B_dim - 1, -1)
        b3 == SetEntry(b2, B_dim - 1, B_dim - 1, 0)
    IN  [val |-> [ij \in DOMAIN b3.val |->
                    IF ij[1] < n /\ ij[2] < n
                    THEN Frobenius(resids[ij[1]], resids[ij[2]]) ELSE b3.val[ij]],
         assigned |-> DOMAIN b3.val]
\* Lines 333-340, for a trial list of length n and allocator content g.
BuildB(resids, n, g) ==
    LET B_dim == n + 1
        b0 == NpEmpty(B_dim, g)
        b1 == SetRow(b0, B_dim - 1, -1)
        b2 == SetCol(b1, B_dim - 1, -1)
        b3 == SetEntry(b2, B_dim - 1, B_dim - 1, 0)
    IN  FillOverlaps(b3, resids, n)

BuildRHSFirst(B_dim) == [i \in 0 .. (B_dim - 1) |-> IF i = 0 THEN -1 ELSE 0]
\* rhs = np.zeros((B_dim)); rhs[-1] = -1
BuildRHS(B_dim) == [i \in 0 .. (B_dim - 1) |-> IF i = B_dim - 1 THEN -1 ELSE 0]

\* Determinant of the rows and columns listed, by expansion along the first row.
RemoveAt(seq, k) == [i \in 1 .. (Len(seq) - 1) |-> IF i < k THEN seq[i] ELSE seq[i + 1]]
RECURSIVE DetRC(_, _, _)
DetRC(m, rows, cols) ==
    IF rows = << >> THEN 1
    ELSE SumOver([k \in 1 .. Len(cols) |->
                    IF m[Head(rows), cols[k]] = 0 THEN 0
                    ELSE (IF k % 2 = 1 THEN 1 ELSE -1) * m[Head(rows), cols[k]]
                         * DetRC(m, Tail(rows), RemoveAt(cols, k))],
                 1 .. Len(cols))

\* F_p = A.dot(F).dot(A) of a rational array.
Orthogonalized(f) == [num |-> MatMul(MatMul(A, f.num), A), den |-> f.den]

\* np.linalg.eigh(fp) returns the eigenvalues in ascending order with their
\* eigenvectors as columns.  The unit vector of basis function k is the
\* eigenvector of the lowest eigenvalue when row and column k of fp vanish
\* off the diagonal and fp - fp[k, k] is positive definite on the other
\* basis functions (all its leading principal minors are positive).
IsLowestOrbital(fp, k) ==
    LET sh == [p \in Idx, q \in Idx |-> fp.num[p, q] - (IF p = q THEN fp.num[k, k] ELSE 0)]
        ix == [n \in 1 .. (nbf - 1) |-> IF n - 1 < k THEN n - 1 ELSE n]
    IN  /\ \A p \in Idx \ {k} : fp.num[p, k] = 0 /\ fp.num[k, p] = 0
        /\ \A n \in 1 .. (nbf - 1) : DetRC(sh, SubSeq(ix, 1, n), SubSeq(ix, 1, n)) > 0
EighDefined(fp) == fp.den # 0 /\ \E k \in Idx : IsLowestOrbital(fp, k)

\* F_p = A.dot(F).dot(A); e, C_p = np.linalg.eigh(F_p); C = A.dot(C_p)
\* C_occ = C[:, :ndocc]; D = np.einsum('pi,qi->pq', C_occ, C_occ)
\* for one occupied orbital (the sign eigh gives the eigenvector cancels in D).
OrbitalGuess(f) ==
    LET fp == Orthogonalized(f)
        k == CHOOSE x \in Idx : IsLowestOrbital(fp, x)
        occ == 0 .. (ndocc - 1)
        C_p == [p \in Idx, n \in occ |-> IF p = k THEN 1 ELSE 0]
        C_occ == [p \in Idx, n \in occ |-> SumOver([q \in Idx |-> A[p, q] * C_p[q, n]], Idx)]
    IN  [p \in Idx, q \in Idx |-> SumOver([n \in occ |-> C_occ[p, n] * C_occ[q, n]], occ)]

RECURSIVE IsPowerOfTwo(_)
IsPowerOfTwo(n) == n = 1 \/ (n > 1 /\ n % 2 = 0 /\ IsPowerOfTwo(n \div 2))
\* |n| / d is a power of two (d > 0).
QIsPowerOfTwo(n, d) ==
    LET g == Gcd(n, d)
    IN  n # 0 /\ IsPowerOfTwo(Abs(n) \div g) /\ IsPowerOfTwo(d \div g)

\* The function f with all its values computed.
Evaluated(f) == f @@ << >>

RECURSIVE LcmOver(_, _, _)
LcmOver(f, dom, l) ==
    IF dom = {} THEN l
    ELSE LET x == CHOOSE y \in dom : TRUE
         IN  LcmOver(f, dom \ {x}, (l \div Gcd(l, f[x])) * Abs(f[x]))

\* The system B x = rhs as rows [B | rhs] of integer numerators m[i, .] over
\* a positive denominator dn[i]; column dim holds the right-hand side.
Augmented(bval, r, dim) ==
    [m |-> Evaluated([ij \in (0 .. (dim - 1)) \X (0 .. dim) |->
                        IF ij[2] = dim THEN r[ij[1]] ELSE bval[ij]]),
     dn |-> Evaluated([x \in 0 .. (dim - 1) |-> 1])]

\* The rows at or below k whose entry in column k has the largest magnitude.
Largest(lu, k, dim) ==
    LET rows == k .. (dim - 1)
    IN  {x \in rows : \A y \in rows :
            Abs(lu.m[y, k]) * lu.dn[x] <= Abs(lu.m[x, k]) * lu.dn[y]}

\* One elimination step with partial pivoting: rows k and piv are exchanged,
\* then the multiple of row k that clears column k is subtracted from every
\* other row.  The rows below k become what the LU factorisation makes of
\* them; clearing the rows above as well does the back substitution.
Eliminated(lu, k, piv) ==
    LET rws == DOMAIN lu.dn
        cls == {ij[2] : ij \in DOMAIN lu.m}
        sw(x) == IF x = k THEN piv ELSE IF x = piv THEN k ELSE x
        m1 == Evaluated([ij \in DOMAIN lu.m |-> lu.m[sw(ij[1]), ij[2]]])
        dn1 == Evaluated([x \in rws |-> lu.dn[sw(x)]])
        pv == m1[k, k]
        sgn == IF pv < 0 THEN -1 ELSE 1
        raw == Evaluated([ij \in DOMAIN lu.m |->
                            IF ij[1] # k THEN sgn * (m1[ij] * pv - m1[ij[1], k] * m1[k, ij[2]])
                            ELSE m1[ij]])
        rawdn == Evaluated([x \in rws |-> IF x # k THEN dn1[x] * Abs(pv) ELSE dn1[x]])
        g == Evaluated([x \in rws |-> GcdOver([y \in cls |-> raw[x, y]], cls, rawdn[x])])
    IN  [m |-> Evaluated([ij \in DOMAIN lu.m |-> raw[ij] \div g[ij[1]]]),
         dn |-> Evaluated([x \in rws |-> rawdn[x] \div g[x]])]

\* Elimination column by column, the pivot being the first row of largest
\* magnitude; it stops at a pivot that is 0 (the matrix is singular).
RECURSIVE Factorised(_, _, _)
Factorised(lu, k, dim) ==
    IF k = dim THEN [lu |-> lu, zero |-> FALSE]
    ELSE LET cand == Largest(lu, k, dim)
             piv == CHOOSE x \in cand : \A y \in cand : x <= y
         IN  IF lu.m[piv, k] = 0 THEN [lu |-> lu, zero |-> TRUE]
             ELSE Factorised(Eliminated(lu, k, piv), k + 1, dim)

\* Binary floating point finds the zero pivot of a singular matrix when every
\* operation before it is exact: when each pivot used so far is a power of
\* two, whichever row of largest magnitude is taken as the pivot row.
RECURSIVE ZeroPivotCertain(_, _, _)
ZeroPivotCertain(lu, k, dim) ==
    /\ k < dim
    /\ \A piv \in Largest(lu, k, dim) :
          \/ lu.m[piv, k] = 0
          \/ /\ QIsPowerOfTwo(lu.m[piv, k], lu.dn[piv])
             /\ ZeroPivotCertain(Eliminated(lu, k, piv), k + 1, dim)

\* np.linalg.solve(B, rhs), as the set of its possible results.  For a
\* nonsingular B: the exact solution x of B x = rhs as num[i] / den with
\* den > 0 in lowest terms.  For a singular B: LinAlgError("Singular matrix")
\* when the factorisation finds the zero pivot for certain; otherwise rounding
\* decides between LinAlgError and a tiny pivot, and with a tiny pivot the
\* array returned holds numbers made of rounding errors, which differ from
\* one LAPACK build to the next: den = 0 stands for such an array.
LinalgSolve(bval, r) ==
    LET dim == PyLen(r)
        rng == 0 .. (dim - 1)
        lu0 == Augmented(bval, r, dim)
        fac == Factorised(lu0, 0, dim)
        raised == [singular |-> TRUE, num |-> PyEmpty, den |-> 1]
        undetermined == [singular |-> FALSE, num |-> [k \in rng |-> 0], den |-> 0]
    IN  IF ~fac.zero
        THEN LET g == [k \in rng |-> Gcd(fac.lu.m[k, k], fac.lu.m[k, dim])]
                 d == [k \in rng |-> Abs(fac.lu.m[k, k]) \div g[k]]
                 n == [k \in rng |->
                         (IF fac.lu.m[k, k] < 0 THEN -1 ELSE 1) * (fac.lu.m[k, dim] \div g[k])]
                 den == LcmOver(d, rng, 1)
             IN  {[singular |-> FALSE, num |-> [k \in rng |-> n[k] * (den \div d[k])], den |-> den]}
        ELSE IF ZeroPivotCertain(lu0, 0, dim)
        THEN {raised}
        ELSE {raised, undetermined}

RECURSIVE AccumulateShifted(_, _, _, _, _, _)
AccumulateShifted(hp, ref, flist, c, x, stop) ==
    IF x >= stop THEN hp
    ELSE AccumulateShifted(
            [hp EXCEPT ![ref] = RatAddScaled(hp[ref], c.num[x + 1], c.den, hp[flist[x]])],
            ref, flist, c, x + 1, stop)
\* for x in xrange(coeff.shape[0] - 1): F += coeff[x] * F_list[x]
\* as in-place updates of the array that `ref` names.
RECURSIVE Accumulate(_, _, _, _, _, _)
Accumulate(hp, ref, flist, c, x, stop) ==
    IF x >= stop THEN hp
    ELSE Accumulate([hp EXCEPT ![ref] = RatAddScaled(hp[ref], c.num[x], c.den, hp[flist[x]])],
                    ref, flist, c, x + 1, stop)

\* ------------------------------------------------------------------- state
VARIABLES
    pc,          \* position inside the SCF-iterations cell
    scf_iter,    \* loop variable of the for statement
    D,           \* density matrix
    heap,        \* the Fock arrays allocated so far, by reference
    F,           \* reference of the array bound to the name F (NoRef: unbound)
    diis_r,      \* residual of this iteration
    F_list,      \* list of references to trial vectors
    DIIS_RESID,  \* list of residual vectors
    SCF_E, E_old, dE, dRMS,
    B, rhs, coeff,
    err,         \* the exception that ended the cell, if any
    reported,    \* whether 'SCF converged.' has been printed
    printed,     \* the 'SCF Iteration' lines printed by this execution of the cell
    runs,        \* how many times the SCF-iterations cell has been started
    \* the memory check of the SCF notebook
    mem_pc, mem_nbf, I_size, memory_footprint, mem_err,
    \* the DF-MP2 notebook
    mp2_pc, Qmo, e_ij, e_ab, occ_i, occ_j, mp2_os_corr, mp2_ss_corr, MP2_E, visited,
    \* the AO->MO transformation script
    mo_pc, C, ERI, Psi4_MO, MO, matches

scf_vars == <<pc, scf_iter, D, heap, F, diis_r, F_list, DIIS_RESID,
              SCF_E, E_old, dE, dRMS, B, rhs, coeff, err, reported, printed, runs, mol>>
mem_vars == <<mem_pc, mem_nbf, I_size, memory_footprint, mem_err>>
mp2_vars == <<mp2_pc, Qmo, e_ij, e_ab, occ_i, occ_j, mp2_os_corr, mp2_ss_corr, MP2_E, visited>>
mo_vars == <<mo_pc, C, ERI, Psi4_MO, MO, matches>>
vars == <<scf_vars, mem_vars, mp2_vars, mo_vars>>

\* The programs are separate: while one runs, the names of the others are
\* not in its kernel.
MemIdle == mem_pc = "idle" /\ mem_nbf = 0 /\ I_size = 0 /\ memory_footprint = 0 /\ mem_err = "none"
MP2Idle ==
    /\ mp2_pc = "idle" /\ Qmo = << >> /\ e_ij = << >> /\ e_ab = << >> /\ occ_i = 0 /\ occ_j = 0
    /\ mp2_os_corr = 0 /\ mp2_ss_corr = 0 /\ MP2_E = 0 /\ visited = << >>
MOIdle == mo_pc = "idle" /\ C = << >> /\ ERI = << >> /\ Psi4_MO = << >> /\ MO = << >> /\ matches = << >>

NoRef == -1
ZeroMat == [p \in Idx, q \in Idx |-> 0]

\* The state once the cells up to "Pre-Iteration Setup" have run on one of
\* the molecules: the core guess density, zero energies and two empty lists.
Init ==
    /\ mol \in Molecules
    /\ pc = "fock"
    /\ scf_iter = 1
    /\ D = OrbitalGuess(RatOfInt(H))
    /\ heap = PyEmpty
    /\ F = NoRef
    /\ diis_r = ZeroMat
    /\ F_list = PyEmpty
    /\ DIIS_RESID = PyEmpty
    /\ SCF_E = 0
    /\ E_old = 0
    /\ dE = 0
    /\ dRMS = [sq_num |-> 0, sq_den |-> 1]
    /\ B = NpEmpty(0, 0)
    /\ rhs = PyEmpty
    /\ coeff = [num |-> PyEmpty, den |-> 1]
    /\ err = "none"
    /\ reported = FALSE
    /\ printed = PyEmpty
    /\ runs = 1
    /\ MemIdle /\ MP2Idle /\ MOIdle

\* The value of the array a reference names.
Deref(ref) == heap[ref]

\* ----------------------------------------------------------------- actions
\* Variant that builds the Fock matrix in the first iteration only and
\* afterwards keeps the array F names, the extrapolated one.
BuildFockFirstOnly ==
    /\ pc = "fock"
    /\ heap' = IF F = NoRef THEN PyAppend(heap, RatOfInt(FockBuild(D))) ELSE heap
    /\ F' = IF F = NoRef THEN PyLen(heap) ELSE F
    /\ pc' = "resid"
    /\ UNCHANGED <<scf_iter, D, diis_r, F_list, DIIS_RESID, SCF_E, E_old, dE, dRMS,
                   B, rhs, coeff, err, reported, printed, runs,
                   mol, mem_vars, mp2_vars, mo_vars>>

\* Build Fock matrix: a new array, bound to F.
BuildFock ==
    /\ pc = "fock"
    /\ heap' = PyAppend(heap, RatOfInt(FockBuild(D)))
    /\ F' = PyLen(heap)
    /\ pc' = "resid"
    /\ UNCHANGED <<scf_iter, D, diis_r, F_list, DIIS_RESID, SCF_E, E_old, dE, dRMS,
                   B, rhs, coeff, err, reported, printed, runs,
                   mol, mem_vars, mp2_vars, mo_vars>>

\* Build DIIS Residual from the array F names (integer-valued: den = 1).
BuildResidual ==
    /\ pc = "resid"
    /\ diis_r' = Residual(Deref(F).num, D)
    /\ pc' = "appendF"
    /\ UNCHANGED <<scf_iter, D, heap, F, F_list, DIIS_RESID, SCF_E, E_old, dE, dRMS,
                   B, rhs, coeff, err, reported, printed, runs,
                   mol, mem_vars, mp2_vars, mo_vars>>

AppendTrialEvicting ==
    /\ pc = "appendF"
    /\ F_list' = IF PyLen(F_list) >= 2
                 THEN [i \in DOMAIN F_list |-> IF i + 1 \in DOMAIN F_list THEN F_list[i + 1] ELSE F]
                 ELSE PyAppend(F_list, F)
    /\ pc' = "appendR"
    /\ UNCHANGED <<scf_iter, D, heap, F, diis_r, DIIS_RESID, SCF_E, E_old, dE, dRMS,
                   B, rhs, coeff, err, reported, printed, runs,
                   mol, mem_vars, mp2_vars, mo_vars>>
\* F_list.append(F)
AppendTrial ==
    /\ pc = "appendF"
    /\ F_list' = PyAppend(F_list, F)
    /\ pc' = "appendR"
    /\ UNCHANGED <<scf_iter, D, heap, F, diis_r, DIIS_RESID, SCF_E, E_old, dE, dRMS,
                   B, rhs, coeff, err, reported, printed, runs,
                   mol, mem_vars, mp2_vars, mo_vars>>

AppendResidualThenDIIS ==
    /\ pc = "appendR"
    /\ DIIS_RESID' = PyAppend(DIIS_RESID, diis_r)
    /\ pc' = "diis"
    /\ UNCHANGED <<scf_iter, D, heap, F, diis_r, F_list, SCF_E, E_old, dE, dRMS,
                   B, rhs, coeff, err, reported, printed, runs,
                   mol, mem_vars, mp2_vars, mo_vars>>

AppendResidualForgotten ==
    /\ pc = "appendR"
    /\ pc' = "energy"
    /\ UNCHANGED <<scf_iter, D, heap, F, diis_r, F_list, DIIS_RESID, SCF_E, E_old, dE, dRMS,
                   B, rhs, coeff, err, reported, printed, runs,
                   mol, mem_vars, mp2_vars, mo_vars>>
\* DIIS_RESID.append(diis_r)
AppendResidual ==
    /\ pc = "appendR"
    /\ DIIS_RESID' = PyAppend(DIIS_RESID, diis_r)
    /\ pc' = "energy"
    /\ UNCHANGED <<scf_iter, D, heap, F, diis_r, F_list, SCF_E, E_old, dE, dRMS,
                   B, rhs, coeff, err, reported, printed, runs,
                   mol, mem_vars, mp2_vars, mo_vars>>

ComputeEnergyFirstResidual ==
    /\ pc = "energy"
    /\ SCF_E' = Energy(Deref(F).num, D)
    /\ dE' = SCF_E' - E_old
    /\ dRMS' = RootMeanSquare(DIIS_RESID[0])
    /\ printed' = PyAppend(printed, [iter |-> scf_iter, SCF_E |-> SCF_E', dE |-> dE', dRMS |-> dRMS'])
    /\ pc' = "conv"
    /\ UNCHANGED <<scf_iter, D, heap, F, diis_r, F_list, DIIS_RESID, E_old,
                   B, rhs, coeff, err, reported, runs,
                   mol, mem_vars, mp2_vars, mo_vars>>

\* Compute RHF energy, dE and dRMS, and print the iteration line.
ComputeEnergy ==
    /\ pc = "energy"
    /\ SCF_E' = Energy(Deref(F).num, D)
    /\ dE' = SCF_E' - E_old
    /\ dRMS' = RootMeanSquare(diis_r)
    /\ printed' = PyAppend(printed, [iter |-> scf_iter, SCF_E |-> SCF_E', dE |-> dE', dRMS |-> dRMS'])
    /\ pc' = "conv"
    /\ UNCHANGED <<scf_iter, D, heap, F, diis_r, F_list, DIIS_RESID, E_old,
                   B, rhs, coeff, err, reported, runs,
                   mol, mem_vars, mp2_vars, mo_vars>>

\* Variant that leaves the loop whatever the convergence test says.
ConvergedBreakUnconditional ==
    /\ pc = "conv"
    /\ pc' = "post"
    /\ UNCHANGED <<scf_iter, D, heap, F, diis_r, F_list, DIIS_RESID, SCF_E, E_old, dE, dRMS,
                   B, rhs, coeff, err, reported, printed, runs,
                   mol, mem_vars, mp2_vars, mo_vars>>

\* SCF Converged?  break
ConvergedBreak ==
    /\ pc = "conv"
    /\ Converged(dE, dRMS)
    /\ pc' = "post"
    /\ UNCHANGED <<scf_iter, D, heap, F, diis_r, F_list, DIIS_RESID, SCF_E, E_old, dE, dRMS,
                   B, rhs, coeff, err, reported, printed, runs,
                   mol, mem_vars, mp2_vars, mo_vars>>

\* Not converged: E_old = SCF_E and on to the DIIS part.
NotConverged ==
    /\ pc = "conv"
    /\ ~Converged(dE, dRMS)
    /\ E_old' = SCF_E
    /\ pc' = "diis"
    /\ UNCHANGED <<scf_iter, D, heap, F, diis_r, F_list, DIIS_RESID, SCF_E, dE, dRMS,
                   B, rhs, coeff, err, reported, printed, runs,
                   mol, mem_vars, mp2_vars, mo_vars>>

SkipDIISUntilThree ==
    /\ pc = "diis"
    /\ scf_iter < 3
    /\ pc' = "guess"
    /\ UNCHANGED <<scf_iter, D, heap, F, diis_r, F_list, DIIS_RESID, SCF_E, E_old, dE, dRMS,
                   B, rhs, coeff, err, reported, printed, runs,
                   mol, mem_vars, mp2_vars, mo_vars>>
\* if scf_iter >= 2: fails, so no DIIS in this iteration.
SkipDIIS ==
    /\ pc = "diis"
    /\ ~DIISActive(scf_iter)
    /\ pc' = "guess"
    /\ UNCHANGED <<scf_iter, D, heap, F, diis_r, F_list, DIIS_RESID, SCF_E, E_old, dE, dRMS,
                   B, rhs, coeff, err, reported, printed, runs,
                   mol, mem_vars, mp2_vars, mo_vars>>

\* Build B matrix.
BuildBMatrix ==
    /\ pc = "diis"
    /\ DIISActive(scf_iter)
    /\ \E g \in Garbage : B' = BuildB(DIIS_RESID, PyLen(F_list), g)
    /\ pc' = "rhs"
    /\ UNCHANGED <<scf_iter, D, heap, F, diis_r, F_list, DIIS_RESID, SCF_E, E_old, dE, dRMS,
                   rhs, coeff, err, reported, printed, runs,
                   mol, mem_vars, mp2_vars, mo_vars>>

\* Build RHS of Pulay equation.
BuildRHSVector ==
    /\ pc = "rhs"
    /\ rhs' = BuildRHS(PyLen(F_list) + 1)
    /\ pc' = "solve"
    /\ UNCHANGED <<scf_iter, D, heap, F, diis_r, F_list, DIIS_RESID, SCF_E, E_old, dE, dRMS,
                   B, coeff, err, reported, printed, runs,
                   mol, mem_vars, mp2_vars, mo_vars>>

\* Solve Pulay equation: coeff = np.linalg.solve(B, rhs).
SolvePulay ==
    /\ pc = "solve"
    /\ \E sol \in LinalgSolve(B.val, rhs) :
           /\ ~sol.singular
           /\ coeff' = [num |-> sol.num, den |-> sol.den]
    /\ pc' = "extrap"
    /\ UNCHANGED <<scf_iter, D, heap, F, diis_r, F_list, DIIS_RESID, SCF_E, E_old, dE, dRMS,
                   B, rhs, err, reported, printed, runs,
                   mol, mem_vars, mp2_vars, mo_vars>>

\* np.linalg.solve raises LinAlgError; nothing in the cell catches it.
SolveRaises ==
    /\ pc = "solve"
    /\ \E sol \in LinalgSolve(B.val, rhs) : sol.singular
    /\ err' = "LinAlgError"
    /\ pc' = "raised"
    /\ UNCHANGED <<scf_iter, D, heap, F, diis_r, F_list, DIIS_RESID, SCF_E, E_old, dE, dRMS,
                   B, rhs, coeff, reported, printed, runs,
                   mol, mem_vars, mp2_vars, mo_vars>>

BuildDIISFockInPlace ==
    /\ pc = "extrap"
    /\ heap' = Accumulate(heap, F, F_list, coeff, 0, PyLen(coeff.num) - 1)
    /\ pc' = "guess"
    /\ UNCHANGED <<scf_iter, D, F, diis_r, F_list, DIIS_RESID, SCF_E, E_old, dE, dRMS,
                   B, rhs, coeff, err, reported, printed, runs,
                   mol, mem_vars, mp2_vars, mo_vars>>

\* Build DIIS Fock matrix: F = np.zeros_like(F), then the in-place sum.
BuildDIISFock ==
    /\ pc = "extrap"
    /\ LET ref == PyLen(heap)
           hp0 == PyAppend(heap, RatZerosLike(Deref(F)))
       IN  /\ heap' = Accumulate(hp0, ref, F_list, coeff, 0, PyLen(coeff.num) - 1)
           /\ F' = ref
    /\ pc' = "guess"
    /\ UNCHANGED <<scf_iter, D, diis_r, F_list, DIIS_RESID, SCF_E, E_old, dE, dRMS,
                   B, rhs, coeff, err, reported, printed, runs,
                   mol, mem_vars, mp2_vars, mo_vars>>

\* Compute new orbital guess with the array F names: the occupied orbital of
\* eigh(A F A) gives the new density.
NewOrbitalGuess ==
    /\ pc = "guess"
    /\ EighDefined(Orthogonalized(Deref(F)))
    /\ D' = OrbitalGuess(Deref(F))
    /\ pc' = "maxiter"
    /\ UNCHANGED <<scf_iter, heap, F, diis_r, F_list, DIIS_RESID, SCF_E, E_old, dE, dRMS,
                   B, rhs, coeff, err, reported, printed, runs,
                   mol, mem_vars, mp2_vars, mo_vars>>

\* On the molecules of the tables every array the notebook diagonalises is
\* determined and has its lowest eigenvector on one basis function, so the
\* guess never blocks.
EighRepresentable == pc = "guess" => EighDefined(Orthogonalized(Deref(F)))

MaxIterExceededSilently ==
    /\ pc = "maxiter"
    /\ scf_iter = MAXITER
    /\ pc' = "post"
    /\ UNCHANGED <<scf_iter, D, heap, F, diis_r, F_list, DIIS_RESID, SCF_E, E_old, dE, dRMS,
                   B, rhs, coeff, err, reported, printed, runs,
                   mol, mem_vars, mp2_vars, mo_vars>>

\* MAXITER exceeded?  raise
MaxIterExceeded ==
    /\ pc = "maxiter"
    /\ scf_iter = MAXITER
    /\ err' = "MaxIterExceeded"
    /\ pc' = "raised"
    /\ UNCHANGED <<scf_iter, D, heap, F, diis_r, F_list, DIIS_RESID, SCF_E, E_old, dE, dRMS,
                   B, rhs, coeff, reported, printed, runs,
                   mol, mem_vars, mp2_vars, mo_vars>>

\* Otherwise the for statement takes the next value of scf_iter.
NextIteration ==
    /\ pc = "maxiter"
    /\ scf_iter # MAXITER
    /\ scf_iter' = scf_iter + 1
    /\ pc' = "fock"
    /\ UNCHANGED <<D, heap, F, diis_r, F_list, DIIS_RESID, SCF_E, E_old, dE, dRMS,
                   B, rhs, coeff, err, reported, printed, runs,
                   mol, mem_vars, mp2_vars, mo_vars>>

\* Post iterations: print 'SCF converged.' and the final energy.
PostIterations ==
    /\ pc = "post"
    /\ reported' = TRUE
    /\ pc' = "done"
    /\ UNCHANGED <<scf_iter, D, heap, F, diis_r, F_list, DIIS_RESID, SCF_E, E_old, dE, dRMS,
                   B, rhs, coeff, err, printed, runs,
                   mol, mem_vars, mp2_vars, mo_vars>>

Next ==
    \/ BuildFock
    \/ BuildResidual
    \/ AppendTrial
    \/ AppendResidual
    \/ ComputeEnergy
    \/ ConvergedBreak
    \/ NotConverged
    \/ SkipDIIS
    \/ BuildBMatrix
    \/ BuildRHSVector
    \/ SolvePulay
    \/ SolveRaises
    \/ BuildDIISFock
    \/ NewOrbitalGuess
    \/ MaxIterExceeded
    \/ NextIteration
    \/ PostIterations

Spec == Init /\ [][Next]_vars

\* The cell has ended: normally, or with an uncaught exception.
Ended == pc \in {"done", "raised"}
Statements ==
    {"fock", "resid", "appendF", "appendR", "energy", "conv", "diis", "rhs", "solve",
     "extrap", "guess", "maxiter", "post", "done", "raised"}

\* The interpreter always executes the next statement: every statement of the
\* cell is a finite array operation, so while the cell has not ended the
\* statement position moves on.
Advance == ~Ended /\ pc' \in Statements \ {pc}
SpecFair == Spec /\ WF_pc(Advance)

\* ---------------------------------------------------------------------------
\* The notebook: its cells share one kernel, whose names and arrays live on
\* from one cell execution to the next.  When no cell is running, the CORE
\* Guess cell, the Pre-Iteration Setup cell or the SCF Iterations cell can be
\* executed again.
\* ---------------------------------------------------------------------------
MaxRuns == 2

\* CORE Guess cell: A, the core-guess orbitals of H, D and E_nuc are computed
\* again; D is the only name whose value can differ from the one it had.
RunCoreGuessCell ==
    /\ Ended
    /\ D' = OrbitalGuess(RatOfInt(H))
    /\ UNCHANGED <<pc, scf_iter, heap, F, diis_r, F_list, DIIS_RESID, SCF_E, E_old, dE, dRMS,
                   B, rhs, coeff, err, reported, printed, runs,
                   mol, mem_vars, mp2_vars, mo_vars>>

\* Pre-Iteration Setup cell: SCF_E = 0.0, E_old = 0.0, F_list = [], DIIS_RESID = [].
RunSetupCell ==
    /\ Ended
    /\ SCF_E' = 0
    /\ E_old' = 0
    /\ F_list' = PyEmpty
    /\ DIIS_RESID' = PyEmpty
    /\ UNCHANGED <<pc, scf_iter, D, heap, F, diis_r, dE, dRMS, B, rhs, coeff, err,
                   reported, printed, runs,
                   mol, mem_vars, mp2_vars, mo_vars>>

\* SCF Iterations cell, executed again: the for statement starts at
\* scf_iter = 1 with whatever the kernel's names hold; the cell's previous
\* output is replaced.
RunIterationsCell ==
    /\ Ended
    /\ runs < MaxRuns
    /\ runs' = runs + 1
    /\ scf_iter' = 1
    /\ err' = "none"
    /\ reported' = FALSE
    /\ printed' = PyEmpty
    /\ pc' = "fock"
    /\ UNCHANGED <<D, heap, F, diis_r, F_list, DIIS_RESID, SCF_E, E_old, dE, dRMS,
                   B, rhs, coeff,
                   mol, mem_vars, mp2_vars, mo_vars>>

NotebookNext == Next \/ RunCoreGuessCell \/ RunSetupCell \/ RunIterationsCell
NotebookSpec == Init /\ [][NotebookNext]_vars
\* ---------------------------------------------------------------------------
\* The DIIS statements applied to given histories: the lists hold small arrays
\* of shape (1, 2), and the statements are the ones of the SCF Iterations cell.
\* ---------------------------------------------------------------------------
MaxHist == 3
Row2(a, b) == [ij \in {0} \X {0, 1} |-> IF ij[2] = 0 THEN a ELSE b]
TrialSet == {Row2(1, 0), Row2(0, 1)}
ResidSet == {Row2(0, 0), Row2(1, 0), Row2(0, 1), Row2(1, 1)}
\* The residuals [1, 0], [0, 1], [0.01, 0], counted in units of 0.01.
ThreeVector ==
    [i \in 0 .. 2 |-> IF i = 0 THEN Row2(100, 0) ELSE IF i = 1 THEN Row2(0, 100) ELSE Row2(1, 0)]
\* Three residuals on one line: their B matrix is singular.
Collinear ==
    [i \in 0 .. 2 |-> IF i = 0 THEN Row2(1, 1) ELSE IF i = 1 THEN Row2(0, 1) ELSE Row2(2, 1)]
ResidHistories(lo, hi) == UNION {[(0 .. (n - 1)) -> ResidSet] : n \in lo .. hi}

\* What the statements of one run never touch in these specifications.
Untouched ==
    /\ mol = 0
    /\ D = ZeroMat
    /\ B = NpEmpty(0, 0)
    /\ rhs = PyEmpty
    /\ coeff = [num |-> PyEmpty, den |-> 1]
    /\ err = "none"
    /\ reported = FALSE
    /\ printed = PyEmpty
    /\ runs = 1
    /\ MemIdle /\ MP2Idle /\ MOIdle

\* The energies SCF_E of the iteration, E_old being 0.0 when line 325 computes
\* dE = SCF_E - E_old.
EnergySet == {-10, -1, 0}
\* An iteration scf_iter = len(F_list) >= 2 whose convergence test has failed
\* (abs(dE) >= E_conv or dRMS >= D_conv: line 327 did not break) and that has
\* set E_old = SCF_E, about to enter the DIIS statements with a history of
\* trial and residual arrays.
DIISInit ==
    /\ \E rl \in ResidHistories(2, MaxHist) \cup {ThreeVector, Collinear} :
         \E tl \in [DOMAIN rl -> TrialSet] :
            /\ heap = [i \in DOMAIN tl |-> RatOfInt(tl[i])]
            /\ F_list = [i \in DOMAIN tl |-> i]
            /\ DIIS_RESID = rl
    /\ F = PyLast(F_list)
    /\ diis_r = PyLast(DIIS_RESID)
    /\ dRMS = RootMeanSquare(diis_r)
    /\ scf_iter = PyLen(F_list)
    /\ pc = "diis"
    /\ Untouched
    /\ SCF_E \in EnergySet /\ dE = SCF_E - 0 /\ E_old = SCF_E
    /\ ~Converged(dE, dRMS)
DIISNext == BuildBMatrix \/ BuildRHSVector \/ SolvePulay \/ SolveRaises \/ BuildDIISFock
DIISSpec == DIISInit /\ [][DIISNext]_vars

\* ---------------------------------------------------------------------------
\* The SCF notebook's names while another program runs.
\* ---------------------------------------------------------------------------
SCFIdle ==
    /\ pc = "idle" /\ scf_iter = 0 /\ D = ZeroMat /\ heap = PyEmpty /\ F = NoRef
    /\ diis_r = ZeroMat /\ F_list = PyEmpty /\ DIIS_RESID = PyEmpty
    /\ SCF_E = 0 /\ E_old = 0 /\ dE = 0 /\ dRMS = [sq_num |-> 0, sq_den |-> 1]
    /\ B = NpEmpty(0, 0) /\ rhs = PyEmpty /\ coeff = [num |-> PyEmpty, den |-> 1]
    /\ err = "none" /\ reported = FALSE /\ printed = PyEmpty /\ runs = 0 /\ mol = 0

\* ---------------------------------------------------------------------------
\* The DF-MP2 notebook: the correlation-energy loop over occupied pairs.
\* Orbital energies and the occupied-virtual block of Qmo are small integers,
\* the energies are exact fractions num / den with den > 0.
\* ---------------------------------------------------------------------------
nalpha == 2
nvirt == 2
naux == 1
scf_e == -76
Occ == 0 .. (nalpha - 1)
Virt == 0 .. (nvirt - 1)
Aux == 0 .. (naux - 1)
QmoValues == {-1, 0, 1, 2}
OccEnergies == {e \in [Occ -> {-2, -1}] : \A m, n \in Occ : m <= n => e[m] <= e[n]}
VirtEnergies == {e \in [Virt -> {1, 2, 3}] : \A m, n \in Virt : m <= n => e[m] <= e[n]}

QNorm(n, d) ==
    LET g == Gcd(n, d)
        sg == IF d < 0 THEN -1 ELSE 1
    IN  [num |-> (sg * n) \div g, den |-> (sg * d) \div g]
QAdd(x, y) == QNorm(x.num * y.den + y.num * x.den, x.den * y.den)
QOfInt(n) == [num |-> n, den |-> 1]
RECURSIVE QSum(_, _)
QSum(f, dom) ==
    IF dom = {} THEN QOfInt(0)
    ELSE LET x == CHOOSE y \in dom : TRUE
         IN  QAdd(f[x], QSum(f, dom \ {x}))

\* e_vv = e_ab.reshape(-1, 1) + e_ab
E_vv(eab) == [ab \in Virt \X Virt |-> eab[ab[1]] + eab[ab[2]]]
\* ij_Iab = np.einsum('Qa,Qb->ab', Qmo[:, i, :], Qmo[:, j, :])
IJ_Iab(q, m, n) ==
    [ab \in Virt \X Virt |-> SumOver([x \in Aux |-> q[x, m, ab[1]] * q[x, n, ab[2]]], Aux)]
\* ij_Iab - ij_Iab.T
MinusTranspose(x) == [ab \in Virt \X Virt |-> x[ab] - x[ab[2], ab[1]]]
\* the 1.0 or 2.0 in the numerator of e_denom
AlphaOne(m, n) == 1
Alpha(m, n) == IF m = n THEN 1 ELSE 2
\* np.einsum('ab,ab,ab->', x, y, e_denom) with e_denom = alpha / (e_i + e_j - e_vv)
Contract(x, y, alpha, ei, ej, evv) ==
    QSum([ab \in Virt \X Virt |-> QNorm(x[ab] * y[ab] * alpha, ei + ej - evv[ab])], Virt \X Virt)

MP2Init ==
    /\ mp2_pc = "pair"
    /\ Qmo \in [Aux \X Occ \X Virt -> QmoValues]
    /\ e_ij \in OccEnergies
    /\ e_ab \in VirtEnergies
    /\ occ_i = 0 /\ occ_j = 0
    /\ mp2_os_corr = QOfInt(0)
    /\ mp2_ss_corr = QOfInt(0)
    /\ MP2_E = QOfInt(0)
    /\ visited = PyEmpty
    /\ SCFIdle /\ MemIdle /\ MOIdle

\* One pass of the body of the two for statements, for the pair (i, j), and
\* the step of the for statements to the next pair.
MP2Pair ==
    /\ mp2_pc = "pair"
    /\ LET ij_Iab == IJ_Iab(Qmo, occ_i, occ_j)
           alpha == Alpha(occ_i, occ_j)
           e_i == e_ij[occ_i]
           e_j == e_ij[occ_j]
       IN  /\ mp2_ss_corr' = QAdd(mp2_ss_corr, Contract(ij_Iab, ij_Iab, alpha, e_i, e_j, E_vv(e_ab)))
           /\ mp2_os_corr' = QAdd(mp2_os_corr,
                                  Contract(ij_Iab, MinusTranspose(ij_Iab), alpha, e_i, e_j, E_vv(e_ab)))
    /\ visited' = PyAppend(visited, <<occ_i, occ_j>>)
    /\ IF occ_j + 1 < nalpha
       THEN occ_j' = occ_j + 1 /\ UNCHANGED <<occ_i, mp2_pc>>
       ELSE IF occ_i + 1 < nalpha
            THEN occ_i' = occ_i + 1 /\ occ_j' = occ_i + 1 /\ UNCHANGED mp2_pc
            ELSE mp2_pc' = "total" /\ UNCHANGED <<occ_i, occ_j>>
    /\ UNCHANGED <<Qmo, e_ij, e_ab, MP2_E, scf_vars, mem_vars, mo_vars>>

\* mp2_corr = mp2_os_corr + mp2_ss_corr; MP2_E = scf_e + mp2_corr
MP2Total ==
    /\ mp2_pc = "total"
    /\ MP2_E' = QAdd(QOfInt(scf_e), QAdd(mp2_os_corr, mp2_ss_corr))
    /\ mp2_pc' = "done"
    /\ UNCHANGED <<Qmo, e_ij, e_ab, occ_i, occ_j, mp2_os_corr, mp2_ss_corr, visited,
                   scf_vars, mem_vars, mo_vars>>

MP2Next == MP2Pair \/ MP2Total
MP2Spec == MP2Init /\ [][MP2Next]_vars

\* ---------------------------------------------------------------------------
\* The AO->MO transformation script.  An ndarray is its shape and its entries
\* by index tuple; reshape goes through the row-major position of an entry.
\* ---------------------------------------------------------------------------
nso == 2
Ao == 0 .. (nso - 1)
Indices(shape) ==
    IF Len(shape) = 2
    THEN {<<a, b>> : a \in 0 .. (shape[1] - 1), b \in 0 .. (shape[2] - 1)}
    ELSE {<<a, b, c, d>> : a \in 0 .. (shape[1] - 1), b \in 0 .. (shape[2] - 1),
                           c \in 0 .. (shape[3] - 1), d \in 0 .. (shape[4] - 1)}
Size(shape) ==
    IF Len(shape) = 2 THEN shape[1] * shape[2] ELSE shape[1] * shape[2] * shape[3] * shape[4]
Ravel(t, shape) ==
    IF Len(shape) = 2
    THEN t[1] * shape[2] + t[2]
    ELSE ((t[1] * shape[2] + t[2]) * shape[3] + t[3]) * shape[4] + t[4]
Unravel(f, shape) ==
    IF Len(shape) = 2
    THEN <<f \div shape[2], f % shape[2]>>
    ELSE <<f \div (shape[2] * shape[3] * shape[4]), (f \div (shape[3] * shape[4])) % shape[2],
           (f \div shape[4]) % shape[3], f % shape[4]>>
NdArray(shape, f) == [shape |-> shape, at |-> [t \in Indices(shape) |-> f[t]]]
\* x.reshape(newshape)
Reshape(x, newshape) ==
    [shape |-> newshape,
     at |-> [t \in Indices(newshape) |-> x.at[Unravel(Ravel(t, newshape), x.shape)]]]
\* x.transpose(axes): axis k of the result is axis axes[k] of x (axes from 0).
Transpose(x, axes) ==
    LET newshape == [k \in 1 .. Len(axes) |-> x.shape[axes[k] + 1]]
        Source(t) == [m \in 1 .. Len(axes) |-> t[CHOOSE k \in 1 .. Len(axes) : axes[k] + 1 = m]]
    IN  [shape |-> newshape, at |-> [t \in Indices(newshape) |-> x.at[Source(t)]]]
\* np.dot(a, b) of two matrices
Dot(a, b) ==
    LET inner == 0 .. (a.shape[2] - 1)
    IN  [shape |-> <<a.shape[1], b.shape[2]>>,
         at |-> [t \in Indices(<<a.shape[1], b.shape[2]>>) |->
                    SumOver([k \in inner |-> a.at[<<t[1], k>>] * b.at[<<k, t[2]>>]], inner)]]
Rank4 == <<nso, nso, nso, nso>>
\* np.einsum('pA,pqrs->Aqrs', c, x) and the three that follow it
EinsumFirst(c, x) ==
    NdArray(Rank4, [t \in Indices(Rank4) |->
        SumOver([p \in Ao |-> c.at[<<p, t[1]>>] * x.at[<<p, t[2], t[3], t[4]>>]], Ao)])
EinsumSecond(c, x) ==
    NdArray(Rank4, [t \in Indices(Rank4) |->
        SumOver([q \in Ao |-> c.at[<<q, t[2]>>] * x.at[<<t[1], q, t[3], t[4]>>]], Ao)])
\* Variant of the third step that contracts r with the last axis of x.
EinsumThirdLastAxis(c, x) ==
    NdArray(Rank4, [t \in Indices(Rank4) |->
        SumOver([r \in Ao |-> c.at[<<r, t[3]>>] * x.at[<<t[1], t[2], t[4], r>>]], Ao)])
\* np.einsum('rC,ABrs->ABCs', c, x)
EinsumThird(c, x) ==
    NdArray(Rank4, [t \in Indices(Rank4) |->
        SumOver([r \in Ao |-> c.at[<<r, t[3]>>] * x.at[<<t[1], t[2], r, t[4]>>]], Ao)])
EinsumFourth(c, x) ==
    NdArray(Rank4, [t \in Indices(Rank4) |->
        SumOver([s \in Ao |-> c.at[<<s, t[4]>>] * x.at[<<t[1], t[2], t[3], s>>]], Ao)])
\* np.einsum('pI,qJ,pqrs,rK,sL->IJKL', c, c, x, c, c)
EinsumN8(c, x) ==
    NdArray(Rank4, [t \in Indices(Rank4) |->
        SumOver([u \in Indices(Rank4) |->
                    c.at[<<u[1], t[1]>>] * c.at[<<u[2], t[2]>>] * x.at[u]
                      * c.at[<<u[3], t[3]>>] * c.at[<<u[4], t[4]>>]], Indices(Rank4))])

\* mints.mo_transform(Matrix_I, Matrix_C, Matrix_C, Matrix_C, Matrix_C): the
\* library's transform, sum over p,q,r,s of C[p,A] C[q,B] I[p,q,r,s] C[r,C] C[s,D].
Psi4MoTransform(c, x) ==
    NdArray(Rank4, [t \in Indices(Rank4) |->
        SumOver([pq \in Ao \X Ao |->
            c.at[<<pq[1], t[1]>>] * c.at[<<pq[2], t[2]>>]
              * SumOver([rs \in Ao \X Ao |->
                    x.at[<<pq[1], pq[2], rs[1], rs[2]>>]
                      * c.at[<<rs[1], t[3]>>] * c.at[<<rs[2], t[4]>>]], Ao \X Ao)], Ao \X Ao)])

\* The orbital coefficients and the AO integrals the script is run on: the
\* integrals of real orbitals (8-fold symmetric), and single-entry tensors.
Matrix2 == <<nso, nso>>
Symmetric8(f) ==
    \A t \in Indices(Rank4) :
        /\ f[t] = f[<<t[2], t[1], t[3], t[4]>>]
        /\ f[t] = f[<<t[1], t[2], t[4], t[3]>>]
        /\ f[t] = f[<<t[3], t[4], t[1], t[2]>>]
CSet ==
    [Indices(Matrix2) -> {0, 1}] \cup
    {[t \in Indices(Matrix2) |-> IF t = <<0, 0>> THEN 1 ELSE IF t = <<0, 1>> THEN -1
                                 ELSE IF t = <<1, 0>> THEN 2 ELSE 1],
     [t \in Indices(Matrix2) |-> IF t = <<0, 0>> THEN 0 ELSE IF t = <<0, 1>> THEN -1
                                 ELSE IF t = <<1, 0>> THEN 1 ELSE 2]}
ERISet ==
    {f \in [Indices(Rank4) -> {0, 1}] : Symmetric8(f)} \cup
    {[t \in Indices(Rank4) |-> IF t = u THEN 1 ELSE 0] : u \in Indices(Rank4)}
NoArray == [shape |-> << >>, at |-> << >>]

MOInit ==
    /\ mo_pc = "psi4"
    /\ \E f \in CSet : C = NdArray(Matrix2, f)
    /\ \E f \in ERISet : ERI = NdArray(Rank4, f)
    /\ Psi4_MO = NoArray
    /\ MO = NoArray
    /\ matches = PyEmpty
    /\ SCFIdle /\ MemIdle /\ MP2Idle

\* One assignment to MO, and one to Psi4_MO.
AssignMO(at, value, next) ==
    /\ mo_pc = at
    /\ MO' = value
    /\ mo_pc' = next
    /\ UNCHANGED <<C, ERI, Psi4_MO, matches, scf_vars, mem_vars, mp2_vars>>
Psi4Transform ==
    /\ mo_pc = "psi4"
    /\ Psi4_MO' = Psi4MoTransform(C, ERI)
    /\ mo_pc' = "einsum1"
    /\ UNCHANGED <<C, ERI, MO, matches, scf_vars, mem_vars, mp2_vars>>
\* np.allclose(a, b) with its default tolerances rtol = 1.e-5 = 1 / rtol_den
\* and atol = 1.e-8 = 1 / atol_den: absolute(a - b) <= atol + rtol * absolute(b)
\* for every element, here for integer elements and multiplied by atol_den.
rtol_den == 100000
atol_den == 100000000
AllClose(a, b) ==
    \A t \in DOMAIN b.at :
        Abs(a.at[t] - b.at[t]) <= (1 + (atol_den \div rtol_den) * Abs(b.at[t])) \div atol_den
\* print("Matches Psi4's implementation: %s" % np.allclose(Psi4_MO, MO))
PrintMatches(at, next) ==
    /\ mo_pc = at
    /\ matches' = PyAppend(matches, AllClose(Psi4_MO, MO))
    /\ mo_pc' = next
    /\ UNCHANGED <<C, ERI, Psi4_MO, MO, scf_vars, mem_vars, mp2_vars>>

\* Numpy einsum N^5 transformation.
Einsum1 == AssignMO("einsum1", EinsumFirst(C, ERI), "einsum2")
Einsum2 == AssignMO("einsum2", EinsumSecond(C, MO), "einsum3")
Einsum3 == AssignMO("einsum3", EinsumThird(C, MO), "einsum4")
Einsum4 == AssignMO("einsum4", EinsumFourth(C, MO), "einsum_cmp")
EinsumMatches == PrintMatches("einsum_cmp", "gemm1")

\* Numpy GEMM N^5 transformation.
Gemm1 == AssignMO("gemm1", Dot(Transpose(C, <<1, 0>>), Reshape(ERI, <<nso, Size(ERI.shape) \div nso>>)), "gemm2")
Gemm2 == AssignMO("gemm2", Dot(Reshape(MO, <<Size(MO.shape) \div nso, nso>>), C), "gemm3")
\* Variant of the third statement that leaves out .transpose(1, 0, 3, 2).
Gemm3NoTranspose == AssignMO("gemm3", Reshape(MO, Rank4), "gemm4")
Gemm3 == AssignMO("gemm3", Transpose(Reshape(MO, Rank4), <<1, 0, 3, 2>>), "gemm4")
Gemm4 == AssignMO("gemm4", Dot(Transpose(C, <<1, 0>>), Reshape(MO, <<nso, Size(MO.shape) \div nso>>)), "gemm5")
Gemm5 == AssignMO("gemm5", Dot(Reshape(MO, <<Size(MO.shape) \div nso, nso>>), C), "gemm6")
Gemm6 == AssignMO("gemm6", Reshape(MO, Rank4), "gemm_cmp")
GemmMatches == PrintMatches("gemm_cmp", "n8")

\* Numpy N^8 transformation, in the branch nbf < 20 (the other branch only
\* prints that the algorithm is skipped).
N8Transform == nso < 20 /\ AssignMO("n8", EinsumN8(C, ERI), "n8_cmp")
N8Matches == PrintMatches("n8_cmp", "done")

MONext ==
    \/ Psi4Transform
    \/ Einsum1 \/ Einsum2 \/ Einsum3 \/ Einsum4 \/ EinsumMatches
    \/ Gemm1 \/ Gemm2 \/ Gemm3 \/ Gemm4 \/ Gemm5 \/ Gemm6 \/ GemmMatches
    \/ N8Transform \/ N8Matches
MOSpec == MOInit /\ [][MONext]_vars

\* ---------------------------------------------------------------------------
\* The memory check of the SCF notebook, ahead of the ERI tensor build.
\* ---------------------------------------------------------------------------
numpy_memory == 2
MaxNbf == 130
\* (nbf**4) * 8.e-9, in GB: 8.e-9 is 1/125000000
ERISize(n) == QNorm(n * n * n * n, 125000000)
\* I_size * 1.5
Footprint(size) == QNorm(size.num * 3, size.den * 2)
QGreaterInt(x, n) == x.num > n * x.den
\* The ">" of the if statement
ExceedsLimit(size) == QGreaterInt(size, numpy_memory)

MemInit ==
    /\ mem_pc = "estimate"
    /\ mem_nbf \in 1 .. MaxNbf
    /\ I_size = QOfInt(0)
    /\ memory_footprint = QOfInt(0)
    /\ mem_err = "none"
    /\ SCFIdle /\ MP2Idle /\ MOIdle

\* I_size = (nbf**4) * 8.e-9 ; memory_footprint = I_size * 1.5
MemEstimate ==
    /\ mem_pc = "estimate"
    /\ I_size' = ERISize(mem_nbf)
    /\ memory_footprint' = Footprint(I_size')
    /\ mem_pc' = "check"
    /\ UNCHANGED <<mem_nbf, mem_err, scf_vars, mp2_vars, mo_vars>>

\* if I_size > numpy_memory: psi4.core.clean(); raise Exception(...)
MemRaise ==
    /\ mem_pc = "check"
    /\ ExceedsLimit(I_size)
    /\ mem_err' = "Exception"
    /\ mem_pc' = "raised"
    /\ UNCHANGED <<mem_nbf, I_size, memory_footprint, scf_vars, mp2_vars, mo_vars>>

\* I = np.asarray(mints.ao_eri()), reached when the if statement did not raise
BuildERI ==
    /\ mem_pc = "check"
    /\ ~ExceedsLimit(I_size)
    /\ mem_pc' = "built"
    /\ UNCHANGED <<mem_nbf, I_size, memory_footprint, mem_err, scf_vars, mp2_vars, mo_vars>>

MemNext == MemEstimate \/ MemRaise \/ BuildERI
MemSpec == MemInit /\ [][MemNext]_vars

\* ------------------------------------------------------------------ claims
N_hist == PyLen(F_list)
HasDuplicateResiduals ==
    \E i \in DOMAIN DIIS_RESID, j \in DOMAIN DIIS_RESID :
        i # j /\ DIIS_RESID[i] = DIIS_RESID[j]

\* C1 (as claimed): when the solve is reached with two identical residuals in
\* the history, no solve failure is propagated: the next state is the orbital
\* update, with F the latest trial vector unmodified.
C1_FallbackOnDuplicates ==
    [][(pc = "solve" /\ HasDuplicateResiduals)
         => /\ err' = "none"
            /\ pc' = "guess"
            /\ heap'[F'] = heap[PyLast(F_list)]]_vars

\* C2 (as claimed): F_list and DIIS_RESID have the same length in every state,
\* the states inside an iteration included.
C2_SameLengthAlways == PyLen(F_list) = PyLen(DIIS_RESID)

\* C2 (amended): the two lists have the same length in every state except the
\* one between the two append statements, where F_list is longer by one.
C2_SameLengthOutsideAppend ==
    IF pc = "appendR"
    THEN PyLen(F_list) = PyLen(DIIS_RESID) + 1
    ELSE PyLen(F_list) = PyLen(DIIS_RESID)
C2_Witness == pc = "diis" /\ scf_iter = 3 /\ PyLen(F_list) = 3 /\ PyLen(DIIS_RESID) = 3

\* C3: no step removes or moves an entry of either list, and after the append
\* step of iteration k both lists hold k entries, the last one being the pair
\* (F, diis_r) of iteration k.
AfterAppend == {"energy", "conv", "diis", "rhs", "solve", "extrap", "guess", "maxiter", "post"}
C3_MonotonicHistory ==
    [][/\ \A i \in DOMAIN F_list : i \in DOMAIN F_list' /\ F_list'[i] = F_list[i]
       /\ \A i \in DOMAIN DIIS_RESID :
            i \in DOMAIN DIIS_RESID' /\ DIIS_RESID'[i] = DIIS_RESID[i]
       /\ pc' \in AfterAppend
            => PyLen(F_list') = scf_iter' /\ PyLen(DIIS_RESID') = scf_iter'
       /\ pc' = "energy"
            => PyLast(F_list') = F' /\ PyLast(DIIS_RESID') = diis_r']_vars
C3_Witness ==
    /\ pc = "energy" /\ scf_iter = 3
    /\ PyLen(F_list) = 3 /\ PyLen(DIIS_RESID) = 3
    /\ F_list[2] = F /\ DIIS_RESID[2] = diis_r

\* C4: in iteration 1 no B matrix is built and nothing is solved, and the
\* array used for the new orbital guess is the Fock matrix built in this
\* iteration from the current density, unchanged.
C4_SingleEntryPassthrough ==
    scf_iter = 1 =>
        /\ pc \notin {"rhs", "solve", "extrap"}
        /\ B = NpEmpty(0, 0) /\ rhs = PyEmpty /\ coeff.num = PyEmpty
        /\ pc = "guess" =>
            /\ PyLen(F_list) = 1
            /\ F = F_list[0]
            /\ Deref(F) = [num |-> FockBuild(D), den |-> 1]
C4_Witness == scf_iter = 1 /\ pc = "guess" /\ PyLen(F_list) = 1

\* C5: whenever the solve has returned for a history of N >= 2 entries, the
\* first N entries of the solution sum to 1.
C5_CoefficientSum ==
    pc = "extrap" =>
        /\ N_hist >= 2
        /\ PyLen(coeff.num) = N_hist + 1
        /\ SumOver(coeff.num, 0 .. (N_hist - 1)) = coeff.den
C5_Witness ==
    /\ pc = "extrap" /\ N_hist = 3
    /\ \E i \in 0 .. 2 : coeff.num[i] # 0 /\ coeff.num[i] # coeff.den

\* C6: when the solve is invoked with N history entries, B is (N+1)x(N+1);
\* B[i,j] is the inner product of residuals i and j for i, j < N; the rest of
\* the last row and column is -1 and the corner is 0; every entry of the
\* array has been assigned.
C6_AugmentedMatrix ==
    pc = "solve" =>
        /\ DOMAIN B.val = (0 .. N_hist) \X (0 .. N_hist)
        /\ B.assigned = DOMAIN B.val
        /\ \A i \in 0 .. N_hist, j \in 0 .. N_hist :
            B.val[i, j] =
                IF i < N_hist /\ j < N_hist
                THEN SumOver([pq \in Idx2 |-> DIIS_RESID[i][pq] * DIIS_RESID[j][pq]], Idx2)
                ELSE IF i = N_hist /\ j = N_hist THEN 0 ELSE -1
C6_Witness ==
    /\ pc = "solve" /\ N_hist = 3
    /\ B.val[0, 0] > 0 /\ B.val[0, 2] # 0 /\ B.val[3, 3] = 0 /\ B.val[1, 3] = -1

\* C7: the matrix handed to the solve is symmetric, border included.
C7_SymmetricB ==
    pc = "solve" =>
        \A ij \in DOMAIN B.val : B.val[ij[1], ij[2]] = B.val[ij[2], ij[1]]
C7_Witness ==
    /\ pc = "solve" /\ N_hist = 3
    /\ B.val[0, 2] # 0 /\ B.val[0, 2] # B.val[0, 1]

\* C8: the right-hand side handed to the solve has length N+1, its first N
\* entries 0 and its last entry -1.
C8_RightHandSide ==
    pc = "solve" =>
        /\ DOMAIN rhs = 0 .. N_hist
        /\ \A i \in 0 .. (N_hist - 1) : rhs[i] = 0
        /\ rhs[N_hist] = -1
C8_Witness == pc = "solve" /\ N_hist = 3 /\ PyLen(rhs) = 4

\* C9: after extrapolation with N trials, F is elementwise the sum over
\* i < N of coeff[i] * F_list[i]; the last entry of coeff (the multiplier)
\* does not enter.
C9_ExtrapolatedVector ==
    (pc = "guess" /\ scf_iter >= 2) =>
        /\ PyLen(coeff.num) = N_hist + 1
        /\ \A i \in 0 .. (N_hist - 1) : Deref(F_list[i]).den = 1
        /\ \A pq \in Idx2 :
            Deref(F).num[pq] * coeff.den =
                Deref(F).den
                * SumOver([i \in 0 .. (N_hist - 1) |-> coeff.num[i] * Deref(F_list[i]).num[pq]],
                          0 .. (N_hist - 1))
C9_Witness ==
    /\ pc = "guess" /\ scf_iter = 3 /\ N_hist = 3
    /\ F \notin {F_list[i] : i \in DOMAIN F_list}
    /\ Cardinality({i \in 0 .. 2 : coeff.num[i] # 0 /\ coeff.num[i] # coeff.den}) >= 2
    /\ \A i \in 0 .. 2 : Deref(F) # Deref(F_list[i])

\* C10: the loop leaves through the break at the convergence test exactly
\* when |SCF_E - E_old| < E_conv and dRMS < D_conv both hold; otherwise it
\* goes on to the DIIS part.
C10_ConvergenceTest ==
    [][pc = "conv" =>
        LET small_dE == Abs(SCF_E - E_old) * E_conv_den < E_conv_num
            small_dRMS == dRMS.sq_num * D_conv_den * D_conv_den
                            < D_conv_num * D_conv_num * dRMS.sq_den
        IN  /\ dE = SCF_E - E_old
            /\ (pc' = "post") <=> (small_dE /\ small_dRMS)
            /\ (pc' = "diis") <=> ~(small_dE /\ small_dRMS)]_vars
C10_Witness == pc = "post" /\ scf_iter >= 2 /\ dE = 0 /\ dRMS.sq_num = 0

\* C11 (as claimed): the stages of an iteration are 1 Fock built and appended,
\* 2 residual built and appended, 3 energy, 4 convergence test, 5 B built,
\* 6 Pulay equation solved, 7 DIIS Fock formed, 8 new orbital guess, and inside
\* one iteration no step of a later stage runs before a step of an earlier one.
ClaimedStage ==
    [p \in {"fock", "appendF"} |-> 1] @@ [p \in {"resid", "appendR"} |-> 2] @@
    [p \in {"energy"} |-> 3] @@ [p \in {"conv"} |-> 4] @@ [p \in {"diis", "rhs"} |-> 5] @@
    [p \in {"solve"} |-> 6] @@ [p \in {"extrap"} |-> 7] @@ [p \in {"guess", "maxiter"} |-> 8] @@
    [p \in {"post", "done", "raised"} |-> 9]
C11_StageOrderAsClaimed ==
    [][scf_iter' = scf_iter => ClaimedStage[pc] <= ClaimedStage[pc']]_vars

\* C11 (amended): the statements of an iteration run in the order Fock built,
\* residual built, Fock appended, residual appended, energy, convergence test;
\* B, right-hand side, solve and DIIS Fock follow only a failed test (and only
\* from iteration 2 on), the new orbital guess comes last, and the iteration
\* counter moves only when the next iteration starts.
StepOrder ==
    {<<"fock", "resid">>, <<"resid", "appendF">>, <<"appendF", "appendR">>,
     <<"appendR", "energy">>, <<"energy", "conv">>, <<"conv", "post">>, <<"conv", "diis">>,
     <<"diis", "rhs">>, <<"diis", "guess">>, <<"rhs", "solve">>, <<"solve", "extrap">>,
     <<"solve", "raised">>, <<"extrap", "guess">>, <<"guess", "maxiter">>,
     <<"maxiter", "raised">>, <<"post", "done">>}
C11_StepOrder ==
    [][/\ <<pc, pc'>> \in StepOrder \cup {<<"maxiter", "fock">>}
       /\ pc' = "diis" => pc = "conv" /\ ~Converged(dE, dRMS)
       /\ pc' = "rhs" => scf_iter >= 2
       /\ scf_iter' = IF <<pc, pc'>> = <<"maxiter", "fock">> THEN scf_iter + 1 ELSE scf_iter]_vars
C11_Witness ==
    /\ pc = "maxiter" /\ scf_iter = 3
    /\ PyLen(coeff.num) = 4 /\ ~Converged(dE, dRMS)

\* C12: unless np.linalg.solve raises, the cell ends after at most MAXITER
\* iterations, by the convergence break or by the 'Maximum number of SCF
\* iterations exceeded.' exception; the exception is raised exactly when none
\* of the MAXITER printed tests was satisfied, and a run whose test is first
\* satisfied at iteration MAXITER ends without raising.
TestPassed(line) == Converged(line.dE, line.dRMS)
NoTestPassed == \A i \in DOMAIN printed : ~TestPassed(printed[i])
C12_EndState ==
    /\ scf_iter \in 1 .. MAXITER
    /\ PyLen(printed) <= MAXITER
    /\ \A i \in DOMAIN printed : printed[i].iter = i + 1
    /\ (Ended /\ err # "LinAlgError")
         => /\ (err = "MaxIterExceeded") <=> (NoTestPassed /\ PyLen(printed) = MAXITER)
            /\ (err = "none") <=> (pc = "done" /\ TestPassed(PyLast(printed)))
            /\ err \in {"none", "MaxIterExceeded"}
            /\ \A i \in DOMAIN printed : i < PyLen(printed) - 1 => ~TestPassed(printed[i])
C12_BoundedTermination == <>Ended /\ []C12_EndState
C12_Witness ==
    /\ pc = "done" /\ err = "none" /\ scf_iter = MAXITER
    /\ PyLen(printed) = MAXITER /\ TestPassed(printed[MAXITER - 1])

\* C13 (as claimed): every execution of the iteration loop starts with an
\* empty history, and the B matrix of a run is built from the residuals of
\* that run only (at iteration k it has dimension k + 1).
C13_FreshHistoryEveryRun ==
    /\ (pc = "fock" /\ scf_iter = 1) => (F_list = PyEmpty /\ DIIS_RESID = PyEmpty)
    /\ pc = "rhs" => DOMAIN B.val = (0 .. scf_iter) \X (0 .. scf_iter)

\* C14: when the history (size N >= 2) holds only zero residuals and identical
\* trial arrays and the DIIS statements run, they do not fail and leave F
\* equal to that trial array.
ExactlyConverged ==
    /\ PyLen(F_list) >= 2
    /\ \A i \in DOMAIN DIIS_RESID : \A ij \in DOMAIN DIIS_RESID[i] : DIIS_RESID[i][ij] = 0
    /\ \A i \in DOMAIN F_list : heap[F_list[i]] = heap[F_list[0]]
InDIISStatements == pc \in {"diis", "rhs", "solve", "extrap"}
C14_IdempotentOnConvergence ==
    [][(InDIISStatements /\ ExactlyConverged)
         => /\ err' = "none"
            /\ pc' # "raised"
            /\ pc' = "guess" => heap'[F'] = heap[F_list[0]]]_vars
\* In a run of the notebook (Spec, NotebookSpec) the case of C14 does not
\* occur: an iteration that appends a zero residual to a history of zero
\* residuals and identical Fock matrices has the energy of the iteration
\* before, so its convergence test passes and line 327 leaves the loop before
\* the DIIS statements.  DIISSpec, whose histories are given and not computed
\* from a density, does offer the case with dE # 0, and there the solve raises.
C14_CaseNeverReached == ~(InDIISStatements /\ ExactlyConverged)

\* C15: with the history trial [1, 0], residual [1, 0] and trial [0, 1],
\* residual [0, 1] the residual block of B is [[1, 0], [0, 1]], the solve
\* succeeds with coefficients 1/2, 1/2 and the DIIS array is [1/2, 1/2].
TwoVector ==
    /\ PyLen(F_list) = 2 /\ PyLen(DIIS_RESID) = 2
    /\ heap[F_list[0]] = RatOfInt(Row2(1, 0)) /\ DIIS_RESID[0] = Row2(1, 0)
    /\ heap[F_list[1]] = RatOfInt(Row2(0, 1)) /\ DIIS_RESID[1] = Row2(0, 1)
C15_TwoVectorScenario ==
    TwoVector =>
        /\ err = "none"
        /\ pc \in {"rhs", "solve", "extrap", "guess"} =>
              /\ B.val[0, 0] = 1 /\ B.val[0, 1] = 0
              /\ B.val[1, 0] = 0 /\ B.val[1, 1] = 1
        /\ pc \in {"extrap", "guess"} =>
              /\ PyLen(coeff.num) = 3
              /\ 2 * coeff.num[0] = coeff.den /\ 2 * coeff.num[1] = coeff.den
        /\ pc = "guess" => Deref(F) = [num |-> Row2(1, 1), den |-> 2]
C15_Witness == TwoVector /\ pc = "guess" /\ Deref(F).den = 2 /\ F \notin {F_list[0], F_list[1]}

\* C16: with the residuals [1, 0], [0, 1], [0.01, 0] the solve succeeds, the
\* third coefficient is larger than the first and than the second, and the
\* three coefficients sum to 1 (coefficients may be negative).
C16_ThreeVectorScenario ==
    DIIS_RESID = ThreeVector =>
        /\ err = "none"
        /\ pc \in {"extrap", "guess"} =>
              /\ PyLen(coeff.num) = 4 /\ coeff.den > 0
              /\ coeff.num[2] > coeff.num[0] /\ coeff.num[2] > coeff.num[1]
              /\ coeff.num[0] + coeff.num[1] + coeff.num[2] = coeff.den
C16_Witness ==
    /\ DIIS_RESID = ThreeVector /\ pc = "extrap"
    /\ coeff.num[0] < 0 /\ coeff.num[2] > coeff.den

\* C17: a failed convergence test at iteration k >= 2 is followed by the
\* build of B and of the right-hand side and by the solve, with exactly k
\* history entries and dimension k + 1; at iteration 1 nothing is built or
\* solved, and the solve never sees fewer than two history entries.
SquareOf(n) == (0 .. (n - 1)) \X (0 .. (n - 1))
C17_SolveFromIterationTwo ==
    [][/\ (pc = "conv" /\ ~Converged(dE, dRMS)) => pc' = "diis"
       /\ (pc = "diis" /\ scf_iter >= 2) =>
             /\ pc' = "rhs"
             /\ PyLen(DIIS_RESID) = scf_iter
             /\ DOMAIN B'.val = SquareOf(scf_iter + 1)
       /\ (pc = "diis" /\ scf_iter < 2) => (pc' = "guess" /\ B' = B /\ coeff' = coeff)
       /\ pc = "rhs" => (pc' = "solve" /\ PyLen(rhs') = scf_iter + 1)
       /\ pc = "solve" =>
             /\ scf_iter >= 2
             /\ PyLen(F_list) = scf_iter /\ PyLen(DIIS_RESID) = scf_iter
             /\ DOMAIN B.val = SquareOf(scf_iter + 1) /\ PyLen(rhs) = scf_iter + 1
             /\ pc' \in {"extrap", "raised"}
             /\ pc' = "extrap" => PyLen(coeff'.num) = scf_iter + 1]_vars
C17_Witness ==
    /\ pc = "solve" /\ scf_iter = 3 /\ ~Converged(dE, dRMS)
    /\ PyLen(F_list) = 3 /\ PyLen(rhs) = 4

\* C18: appending a pair whose residual shape differs from its trial shape, or
\* whose shape differs from the entries already stored, fails with
\* DimensionMismatch and leaves both lists unchanged, so that all stored
\* arrays always have one common shape.
ShapeOf(x) == DOMAIN x
PairMismatch ==
    \/ ShapeOf(Deref(F).num) # ShapeOf(diis_r)
    \/ \E i \in DOMAIN F_list : ShapeOf(heap[F_list[i]].num) # ShapeOf(Deref(F).num)
    \/ \E i \in DOMAIN DIIS_RESID : ShapeOf(DIIS_RESID[i]) # ShapeOf(diis_r)
CommonShape ==
    \A i \in DOMAIN F_list : \A j \in DOMAIN DIIS_RESID :
        /\ ShapeOf(heap[F_list[i]].num) = ShapeOf(heap[F_list[0]].num)
        /\ ShapeOf(DIIS_RESID[j]) = ShapeOf(heap[F_list[0]].num)
C18_AppendShapeCheck ==
    [][/\ (pc = "appendF" /\ PairMismatch)
            => (err' = "DimensionMismatch" /\ F_list' = F_list /\ DIIS_RESID' = DIIS_RESID)
       /\ CommonShape']_vars
\* The case of C18 does not occur: lines 311 and 314 build F and diis_r from
\* H, I, D, S and A, all of shape (nbf, nbf), so the pair lines 317-318 append
\* never differs in shape from itself or from the stored arrays.
C18_MismatchNeverOffered == ~(pc = "appendF" /\ PairMismatch)

\* C19: no statement changes an array stored in F_list or DIIS_RESID: the
\* array appended in an iteration is the Fock matrix built from that
\* iteration's density, it keeps its value in every later step, and the DIIS
\* accumulation writes only to a new array that is no element of F_list.
Stored == {F_list[i] : i \in DOMAIN F_list}
C19_ReadOnlyHistory ==
    [][/\ \A i \in DOMAIN F_list : heap'[F_list[i]] = heap[F_list[i]]
       /\ \A i \in DOMAIN DIIS_RESID : DIIS_RESID'[i] = DIIS_RESID[i]
       /\ pc = "appendF" => heap'[PyLast(F_list')] = RatOfInt(FockBuild(D))
       /\ pc = "extrap" =>
             /\ F' \notin Stored
             /\ F_list' = F_list
             /\ \A ref \in DOMAIN heap : heap'[ref] = heap[ref]]_vars
C19_Witness ==
    /\ pc = "guess" /\ scf_iter = 3 /\ F \notin Stored
    /\ \A i \in DOMAIN F_list : heap[F_list[i]].den = 1 /\ Deref(F) # heap[F_list[i]]

\* C20: the dRMS tested (and printed) at iteration k is the root mean square
\* of the entries of the residual appended at iteration k, the last element
\* of DIIS_RESID, and of nothing else; it is 0 exactly when that residual is
\* the zero array.  (dRMS is held as its square, sq_num / sq_den.)
C20_ConvergenceSignal ==
    pc = "conv" =>
        LET r == PyLast(DIIS_RESID)
        IN  /\ PyLen(DIIS_RESID) = scf_iter
            /\ dRMS.sq_den = nbf * nbf
            /\ dRMS.sq_num = SumOver([ij \in Idx2 |-> r[ij] * r[ij]], Idx2)
            /\ PyLast(printed).dRMS = dRMS /\ PyLast(printed).iter = scf_iter
            /\ (dRMS.sq_num = 0) <=> (r = ZeroMat)
C20_Witness ==
    /\ pc = "conv" /\ scf_iter = 4 /\ dRMS.sq_num > 0
    /\ RootMeanSquare(DIIS_RESID[2]) # dRMS /\ DIIS_RESID[0] # PyLast(DIIS_RESID)

\* The expressions of the notebook's text, summed over all ordered pairs of
\* occupied orbitals with weight 1.
Iab(m, n, a, b) == SumOver([x \in Aux |-> Qmo[x, m, a] * Qmo[x, n, b]], Aux)
Denominator(m, n, a, b) == e_ij[m] + e_ij[n] - e_ab[a] - e_ab[b]
Quadruples == Occ \X Occ \X Virt \X Virt
\* sum over ij, ab of I_ab I_ab / (e_i + e_j - e_vv[a,b])
SquareSum ==
    QSum([t \in Quadruples |->
            QNorm(Iab(t[1], t[2], t[3], t[4]) * Iab(t[1], t[2], t[3], t[4]),
                  Denominator(t[1], t[2], t[3], t[4]))], Quadruples)
\* sum over ij, ab of I_ab (I_ab - I_ba) / (e_i + e_j - e_vv[a,b])
AntisymmetrizedSum ==
    QSum([t \in Quadruples |->
            QNorm(Iab(t[1], t[2], t[3], t[4])
                    * (Iab(t[1], t[2], t[3], t[4]) - Iab(t[1], t[2], t[4], t[3])),
                  Denominator(t[1], t[2], t[3], t[4]))], Quadruples)
PairSymmetric ==
    \A t \in Quadruples : Iab(t[1], t[2], t[3], t[4]) = Iab(t[2], t[1], t[4], t[3])

\* C21: when the loop over i and j >= i has ended, each of the two
\* accumulators holds the value of the full double sum over all ordered pairs
\* (i, j) with weight 1 of the expression it accumulates, and every unordered
\* pair {i, j} has been visited exactly once.
C21_PairLoop ==
    (mp2_pc \in {"total", "done"} /\ PairSymmetric) =>
        /\ mp2_ss_corr = SquareSum
        /\ mp2_os_corr = AntisymmetrizedSum
        /\ \A m, n \in Occ :
              Cardinality({k \in DOMAIN visited : visited[k] \in {<<m, n>>, <<n, m>>}}) = 1
        /\ \A k \in DOMAIN visited : visited[k][1] <= visited[k][2]
C21_Witness ==
    /\ mp2_pc = "done" /\ PairSymmetric /\ PyLen(visited) = 3
    /\ \E a, b \in Virt : Iab(0, 1, a, b) # 0 /\ Iab(0, 1, a, b) # Iab(0, 1, b, a)
    /\ mp2_os_corr.num # 0 /\ mp2_ss_corr # mp2_os_corr

\* C22 (as claimed): after the loop mp2_ss_corr holds the same-spin sum
\* I_ab (I_ab - I_ba) / (e_i + e_j - e_vv), mp2_os_corr holds the opposite-spin
\* sum I_ab I_ab / (e_i + e_j - e_vv), and MP2_E = scf_e + mp2_os_corr + mp2_ss_corr.
C22_SpinComponents ==
    mp2_pc = "done" =>
        /\ mp2_ss_corr = AntisymmetrizedSum
        /\ mp2_os_corr = SquareSum
        /\ MP2_E = QAdd(QOfInt(scf_e), QAdd(mp2_os_corr, mp2_ss_corr))

\* C23: the four successive one-index einsum contractions leave in MO the
\* tensor sum over p,q,r,s of C[p,A] C[q,B] I[p,q,r,s] C[r,C] C[s,D], the one
\* the single N^8 contraction and the library's transform give, for every C
\* and I; the script prints True for both comparisons.
DirectTransform(c, x) ==
    [t \in Indices(Rank4) |->
        SumOver([u \in Indices(Rank4) |->
                    c.at[<<u[1], t[1]>>] * c.at[<<u[2], t[2]>>] * x.at[u]
                      * c.at[<<u[3], t[3]>>] * c.at[<<u[4], t[4]>>]], Indices(Rank4))]
C23_QuarterTransforms ==
    /\ mo_pc \in {"einsum_cmp", "n8_cmp"} =>
          /\ MO.shape = Rank4
          /\ MO.at = DirectTransform(C, ERI)
          /\ MO = Psi4_MO
    /\ mo_pc = "gemm1" => matches[0]
    /\ mo_pc = "done" => (matches[0] /\ matches[2])
C23_Witness ==
    /\ mo_pc = "einsum_cmp" /\ ~Symmetric8(ERI.at)
    /\ C.at[<<0, 1>>] # C.at[<<1, 0>>]
    /\ \E t, u \in Indices(Rank4) : MO.at[t] # 0 /\ MO.at[u] # 0 /\ MO.at[t] # MO.at[u]

\* C24: for a square C and an ERI tensor with the symmetries
\* I[p,q,r,s] = I[q,p,r,s] = I[p,q,s,r] = I[r,s,p,q] the reshape/dot/transpose
\* sequence leaves in MO the same rank-4 tensor, index for index, as the four
\* einsum contractions.
FourEinsums(c, x) == EinsumFourth(c, EinsumThird(c, EinsumSecond(c, EinsumFirst(c, x))))
C24_GemmTransform ==
    (mo_pc = "gemm_cmp" /\ Symmetric8(ERI.at)) =>
        /\ MO = FourEinsums(C, ERI)
        /\ \A t \in Indices(Rank4) : MO.at[t] = FourEinsums(C, ERI).at[t]
C24_Witness ==
    /\ mo_pc = "gemm_cmp" /\ Symmetric8(ERI.at)
    /\ C.at[<<0, 1>>] # C.at[<<1, 0>>]
    /\ \E t, u \in Indices(Rank4) : MO.at[t] # 0 /\ MO.at[u] # 0 /\ MO.at[t] # MO.at[u]


\* C25: whenever the estimated memory utilization memory_footprint (1.5 times
\* the ERI tensor size) exceeds numpy_memory the exception is raised and the ERI
\* tensor is not built; the tensor is built only when memory_footprint is
\* within the limit.
C25_MemoryGuard ==
    /\ mem_pc = "built" => ~QGreaterInt(memory_footprint, numpy_memory)
    /\ (mem_pc \in {"raised", "built"} /\ QGreaterInt(memory_footprint, numpy_memory)) =>
          (mem_pc = "raised" /\ mem_err = "Exception")


\* C26: the post-iteration report is reached only in runs in which some
\* iteration satisfied the convergence test; a run that goes through MAXITER
\* iterations without satisfying it never reports convergence.
SomeTestPassed == \E n \in DOMAIN printed : TestPassed(printed[n])
C26_ReportOnlyConverged ==
    /\ (pc \in {"post", "done"} \/ reported) => (SomeTestPassed /\ err = "none")
    /\ reported => pc = "done"
    /\ (PyLen(printed) = MAXITER /\ ~SomeTestPassed) => (~reported /\ pc \notin {"post", "done"})
    /\ err = "MaxIterExceeded" => (~SomeTestPassed /\ ~reported)
C26_Witness ==
    /\ reported /\ pc = "done"
    /\ PyLen(printed) >= 2
    /\ ~TestPassed(printed[0])
    /\ TestPassed(PyLast(printed))
C26_WitnessExhausted ==
    /\ err = "MaxIterExceeded" /\ ~reported /\ PyLen(printed) = MAXITER


\* C27: the residual and the energy SCF_E of iteration k are computed from
\* the Fock matrix built from the current density in iteration k, never from
\* a DIIS-extrapolated one; the extrapolated matrix is what F names only
\* between the extrapolation and the next Fock build, where the new density is
\* made, and it is no element of the trial history.
FreshFock == RatOfInt(FockBuild(D))
C27_FreshFockOnly ==
    /\ pc \in {"resid", "appendF", "appendR", "energy", "conv"} =>
          LET fresh == FockBuild(D)
          IN  /\ Deref(F) = RatOfInt(fresh)
              /\ pc # "resid" => diis_r = Residual(fresh, D)
              /\ pc = "conv" =>
                    /\ SCF_E = Energy(fresh, D)
                    /\ PyLast(printed).SCF_E = SCF_E
                    /\ PyLast(F_list) = F
    /\ (pc \in {"guess", "maxiter"} /\ DIISActive(scf_iter)) => F \notin Stored
    /\ (pc = "fock" /\ scf_iter > 2) => F \notin Stored
    /\ PyLen(F_list) <= scf_iter
    /\ \A m, n \in DOMAIN F_list : m # n => F_list[m] # F_list[n]
C27_Witness ==
    /\ pc = "conv" /\ scf_iter = 3
    /\ SCF_E = Energy(FockBuild(D), D)
    /\ \E ref \in DOMAIN heap :
          /\ ref \notin Stored
          /\ heap[ref] # FreshFock
          /\ \A x \in DOMAIN F_list : heap[ref] # heap[F_list[x]]

====
